---------------------------- MODULE Spec2Model ----------------------------
(***************************************************************************)
(* Model of token_racer.py: the content sanitizer, the track generator     *)
(* adapter, the scrolling track buffer shared by the refill thread and the *)
(* main loop, the key listener and the gear-driven simulation step.        *)
(*                                                                         *)
(* A string is a sequence of one-character strings.  The sizes of the      *)
(* board and of a chunk are scaled down (the source values are given next  *)
(* to each); every relation between them that the code relies on is kept.  *)
(***************************************************************************)
EXTENDS Integers, Sequences, FiniteSets, TLC

\* ---- GAME CONFIG (token_racer.py 19-24) --------------------------------
\* ROAD_WIDTH = 25 in the source
ROAD_WIDTH == 3
\* DISPLAY_HEIGHT = 25 in the source
DISPLAY_HEIGHT == 3
\* ROAD_CHUNK_SIZE = 30 in the source
ROAD_CHUNK_SIZE == 3
\* the literal 10 of "DISPLAY_HEIGHT + 10" (lines 327 and 338)
BUFFER_MARGIN == 1
\* the literal 150 of "score // 150" (lines 255 and 328)
DIFFICULTY_STEP == 1

OBSTACLE_CHARS == {"#", "*", "~", "@"}
WALL == "|"
EMPTY == " "
\* a character outside the track alphabet (a letter, an emoji, ...)
JUNK == "x"

max_gear == 10

\* ---- strings ------------------------------------------------------------
Min(a, b) == IF a < b THEN a ELSE b
Max(a, b) == IF a > b THEN a ELSE b

\* str.startswith("|") / str.endswith("|")
StartsWithWall(line) == Len(line) > 0 /\ line[1] = WALL
EndsWithWall(line) == Len(line) > 0 /\ line[Len(line)] = WALL

\* line[1:-1]
Interior(line) == SubSeq(line, 2, Len(line) - 1)

\* The TrackLine invariant: exact width, wall markers, closed alphabet.
IsTrackLine(line) ==
    /\ Len(line) = ROAD_WIDTH + 2
    /\ line[1] = WALL
    /\ line[ROAD_WIDTH + 2] = WALL
    /\ \A i \in 2..(ROAD_WIDTH + 1) : line[i] \in OBSTACLE_CHARS \cup {EMPTY}

\* The outcomes of random.choice(OBSTACLE_CHARS), one per road column.
RandomStreams == [1..ROAD_WIDTH -> OBSTACLE_CHARS]

\* create_safe_road_line: positions are 0-based columns; a position outside
\* the road is skipped.
create_safe_road_line(obstacle_positions, rnd) ==
    LET hit(c) == \E k \in 1..Len(obstacle_positions) :
                      /\ obstacle_positions[k] = c
                      /\ 0 <= obstacle_positions[k]
                      /\ obstacle_positions[k] < ROAD_WIDTH
    IN  <<WALL>> \o [i \in 1..ROAD_WIDTH |-> IF hit(i - 1) THEN rnd[i] ELSE EMPTY]
               \o <<WALL>>

\* validate_and_fix_road_line without the interior width test of line 71
validate_and_fix_any_width(line, rnd) ==
    IF Len(line) = 0 \/ ~(StartsWithWall(line) /\ EndsWithWall(line))
    THEN create_safe_road_line(<<>>, rnd)
    ELSE LET interior == Interior(line)
         IN  <<WALL>>
             \o [i \in 1..Len(interior) |->
                   IF interior[i] \in OBSTACLE_CHARS \/ interior[i] = EMPTY
                   THEN interior[i]
                   ELSE rnd[((i - 1) % ROAD_WIDTH) + 1]]
             \o <<WALL>>

\* validate_and_fix_road_line keeping only the blanks of line 75: every
\* other interior cell gets a fresh random.choice(OBSTACLE_CHARS)
validate_and_fix_rerandomized(line, rnd) ==
    IF Len(line) = 0 \/ ~(StartsWithWall(line) /\ EndsWithWall(line))
    THEN create_safe_road_line(<<>>, rnd)
    ELSE LET interior == Interior(line)
         IN  IF Len(interior) # ROAD_WIDTH
             THEN create_safe_road_line(<<>>, rnd)
             ELSE <<WALL>>
                  \o [i \in 1..ROAD_WIDTH |->
                        IF interior[i] = EMPTY THEN interior[i] ELSE rnd[i]]
                  \o <<WALL>>

\* validate_and_fix_road_line
validate_and_fix_road_line(line, rnd) ==
    IF Len(line) = 0 \/ ~(StartsWithWall(line) /\ EndsWithWall(line))
    THEN create_safe_road_line(<<>>, rnd)
    ELSE LET interior == Interior(line)
         IN  IF Len(interior) # ROAD_WIDTH
             THEN create_safe_road_line(<<>>, rnd)
             ELSE <<WALL>>
                  \o [i \in 1..ROAD_WIDTH |->
                        IF interior[i] \in OBSTACLE_CHARS \/ interior[i] = EMPTY
                        THEN interior[i]
                        ELSE rnd[i]]
                  \o <<WALL>>


\* ---- Track Generator Adapter (token_racer.py 81-183) --------------------
\* range(a, b) as a sequence
Range(a, b) == [i \in 1..Max(0, b - a) |-> a + i - 1]

\* str.strip(): leading and trailing blanks removed
RECURSIVE LStrip(_)
LStrip(line) ==
    IF Len(line) > 0 /\ line[1] = EMPTY THEN LStrip(Tail(line)) ELSE line
RECURSIVE RStrip(_)
RStrip(line) ==
    IF Len(line) > 0 /\ line[Len(line)] = EMPTY
    THEN RStrip(SubSeq(line, 1, Len(line) - 1))
    ELSE line
Strip(line) == RStrip(LStrip(line))

\* "if pos not in obstacle_positions: obstacle_positions.append(pos)" over
\* the first num draws of pts
RECURSIVE DistinctPoints(_, _)
DistinctPoints(pts, num) ==
    IF num = 0 THEN <<>>
    ELSE LET before == DistinctPoints(pts, num - 1)
         IN  IF \E k \in 1..Len(before) : before[k] = pts[num]
             THEN before
             ELSE Append(before, pts[num])

\* One outcome of the random calls made for a synthesized line.
\*   num      random.randint(0, ...)          the number of obstacles
\*   strategy which of the two random() < 0.3 tests succeeded
\*   left, right, jitter, pts                 the random.randint draws
\*   chars    the random.choice(OBSTACLE_CHARS) draws, one per column
NoPts == [k \in 1..3 |-> 0]
NoDraw(chars) ==
    [num |-> 0, strategy |-> "points", left |-> 0, right |-> 0, jitter |-> 0,
     pts |-> NoPts, chars |-> chars]

\* lines 150-167: the obstacle positions of one filler line
FillerPositions(draw) ==
    IF draw.num = 0 THEN <<>>
    ELSE IF draw.strategy = "walls"
    THEN Range(draw.left, draw.left + 5)
         \o Range(draw.right, Min(ROAD_WIDTH, draw.right + 5))
    ELSE IF draw.strategy = "slalom"
    THEN LET center == (ROAD_WIDTH \div 2) + draw.jitter
             pos(i) == center + (i - (draw.num \div 2)) * 3
             all == [k \in 1..draw.num |-> pos(k - 1)]
             InRoad(p) == 0 <= p /\ p < ROAD_WIDTH
         IN  SelectSeq(all, InRoad)
    ELSE DistinctPoints(draw.pts, draw.num)

\* lines 176-181: the obstacle positions of one fallback line
FallbackPositions(draw) == DistinctPoints(draw.pts, draw.num)

\* lines 144-148 appending "line" instead of "fixed_line"
RECURSIVE UnsanitizedReply(_, _)
UnsanitizedReply(raw_lines, rnd) ==
    IF raw_lines = <<>> THEN <<>>
    ELSE LET line == Strip(Head(raw_lines))
         IN  IF Len(line) > 0
             THEN <<line>> \o UnsanitizedReply(Tail(raw_lines), rnd)
             ELSE UnsanitizedReply(Tail(raw_lines), rnd)

\* lines 144-148: strip every raw line, drop the blank ones, sanitize the rest
RECURSIVE SanitizedReply(_, _)
SanitizedReply(raw_lines, rnd) ==
    IF raw_lines = <<>> THEN <<>>
    ELSE LET line == Strip(Head(raw_lines))
         IN  IF Len(line) > 0
             THEN <<validate_and_fix_road_line(line, rnd)>>
                  \o SanitizedReply(Tail(raw_lines), rnd)
             ELSE SanitizedReply(Tail(raw_lines), rnd)

\* The service call either raises (transport error, timeout, malformed
\* envelope: any Exception inside the try block) or returns a reply, given
\* here as the lines of content.strip().split("\n").
Raises == [kind |-> "raise", lines |-> <<>>]
Reply(raw_lines) == [kind |-> "reply", lines |-> raw_lines]

\* llm_generate_road_chunk returning "lines" instead of "lines[:chunk_size]"
generate_chunk_untruncated(previous_lines, chunk_size, difficulty_level, outcome, draw) ==
    IF outcome.kind = "raise"
    THEN [i \in 1..chunk_size |->
             create_safe_road_line(FallbackPositions(draw), draw.chars)]
    ELSE LET lines == SanitizedReply(outcome.lines, draw.chars)
             filler == [i \in 1..Max(0, chunk_size - Len(lines)) |->
                           create_safe_road_line(FillerPositions(draw), draw.chars)]
         IN  lines \o filler

\* llm_generate_road_chunk.  previous_lines only enters the prompt.
llm_generate_road_chunk(previous_lines, chunk_size, difficulty_level, outcome, draw) ==
    IF outcome.kind = "raise"
    THEN [i \in 1..chunk_size |->
             create_safe_road_line(FallbackPositions(draw), draw.chars)]
    ELSE LET lines == SanitizedReply(outcome.lines, draw.chars)
             filler == [i \in 1..Max(0, chunk_size - Len(lines)) |->
                           create_safe_road_line(FillerPositions(draw), draw.chars)]
         IN  SubSeq(lines \o filler, 1, chunk_size)

\* For each line of the chunk above: TRUE when the line is the result of
\* validate_and_fix_road_line, FALSE when create_safe_road_line made it.
ChunkVia(chunk_size, outcome) ==
    IF outcome.kind = "raise"
    THEN [i \in 1..chunk_size |-> FALSE]
    ELSE LET kept == Len(SelectSeq(outcome.lines, LAMBDA l : Len(Strip(l)) > 0))
         IN  [i \in 1..chunk_size |-> i <= kept]

\* num draws of random.randint(0, ROAD_WIDTH - 1); the draws never made are 0
PtsFor(n) == {p \in [1..3 -> 0..(ROAD_WIDTH - 1)] : \A k \in 1..3 : k > n => p[k] = 0}

\* The draws random can produce for a filler line at a difficulty, and for a
\* fallback line; chars ranges over the given streams.
FillerDraws(difficulty_level, streams) ==
    LET nums == 1..Min(3, difficulty_level)
    IN  {NoDraw(c) : c \in streams}
        \cup {[NoDraw(c) EXCEPT !.num = n, !.strategy = "walls",
                                !.left = l, !.right = r] :
                 c \in streams, n \in nums, l \in 0..(ROAD_WIDTH \div 3),
                 r \in ((2 * ROAD_WIDTH) \div 3)..(ROAD_WIDTH - 1)}
        \cup {[NoDraw(c) EXCEPT !.num = n, !.strategy = "slalom", !.jitter = j] :
                 c \in streams, n \in nums, j \in (0 - 10)..10}
        \cup UNION {{[NoDraw(c) EXCEPT !.num = n, !.pts = p] :
                         c \in streams, p \in PtsFor(n)} : n \in nums}
FallbackDraws(streams) ==
    UNION {{[NoDraw(c) EXCEPT !.num = n, !.pts = p] :
               c \in streams, p \in PtsFor(n)} : n \in 0..2}


\* ---- Gear system (token_racer.py 45-56) ---------------------------------
\* the table with the fps_mult of 7th gear typed as that of 6th
GEAR_SPEEDS_slip ==
    [g \in 1..10 |->
        CASE g = 1 -> [fps_mult |-> 5, move_speed |-> 1]
          [] g = 2 -> [fps_mult |-> 7, move_speed |-> 1]
          [] g = 3 -> [fps_mult |-> 10, move_speed |-> 2]
          [] g = 4 -> [fps_mult |-> 13, move_speed |-> 2]
          [] g = 5 -> [fps_mult |-> 18, move_speed |-> 3]
          [] g = 6 -> [fps_mult |-> 20, move_speed |-> 4]
          [] g = 7 -> [fps_mult |-> 20, move_speed |-> 5]
          [] g = 8 -> [fps_mult |-> 26, move_speed |-> 6]
          [] g = 9 -> [fps_mult |-> 28, move_speed |-> 7]
          [] g = 10 -> [fps_mult |-> 30, move_speed |-> 8]]

\* fps_mult is kept in tenths (0.5 -> 5, ..., 3.0 -> 30)
GEAR_SPEEDS ==
    [g \in 1..10 |->
        CASE g = 1 -> [fps_mult |-> 5, move_speed |-> 1]
          [] g = 2 -> [fps_mult |-> 7, move_speed |-> 1]
          [] g = 3 -> [fps_mult |-> 10, move_speed |-> 2]
          [] g = 4 -> [fps_mult |-> 13, move_speed |-> 2]
          [] g = 5 -> [fps_mult |-> 18, move_speed |-> 3]
          [] g = 6 -> [fps_mult |-> 20, move_speed |-> 4]
          [] g = 7 -> [fps_mult |-> 22, move_speed |-> 5]
          [] g = 8 -> [fps_mult |-> 26, move_speed |-> 6]
          [] g = 9 -> [fps_mult |-> 28, move_speed |-> 7]
          [] g = 10 -> [fps_mult |-> 30, move_speed |-> 8]]

BASE_FPS == 12

\* line 336: frame_delay = 1.0 / (BASE_FPS * fps_mult), here in whole
\* microseconds (fps_mult is in tenths, hence the factor 10)
frame_delay(gear) == (10 * 1000000) \div (BASE_FPS * GEAR_SPEEDS[gear].fps_mult)

Intents == {"up", "down", "left", "right", "gear_up"}

\* ---- Simulation step helpers --------------------------------------------
\* lines 231-241 without the board tests of lines 232-238
ApplyIntentUnclamped(p, action) ==
    IF action = "left" THEN [p EXCEPT !.x = p.x - 1]
    ELSE IF action = "right" THEN [p EXCEPT !.x = p.x + 1]
    ELSE IF action = "up" THEN [p EXCEPT !.y = p.y - 1]
    ELSE IF action = "down" THEN [p EXCEPT !.y = p.y + 1]
    ELSE IF action = "gear_up" THEN [p EXCEPT !.gear = Min(max_gear, p.gear + 1)]
    ELSE p

\* lines 231-241: one intent applied to the player
ApplyIntent(p, action) ==
    IF action = "left" /\ p.x > 0 THEN [p EXCEPT !.x = p.x - 1]
    ELSE IF action = "right" /\ p.x < ROAD_WIDTH - 1 THEN [p EXCEPT !.x = p.x + 1]
    ELSE IF action = "up" /\ p.y > 0 THEN [p EXCEPT !.y = p.y - 1]
    ELSE IF action = "down" /\ p.y < DISPLAY_HEIGHT - 1 THEN [p EXCEPT !.y = p.y + 1]
    ELSE IF action = "gear_up" THEN [p EXCEPT !.gear = Min(max_gear, p.gear + 1)]
    ELSE p

\* lines 229-241: the loop "for _ in range(moves): if input_queue: pop(0) ..."
RECURSIVE DrainIntents(_, _, _)
DrainIntents(p, queue, moves) ==
    IF moves = 0 \/ queue = <<>> THEN [player |-> p, queue |-> queue]
    ELSE DrainIntents(ApplyIntent(p, Head(queue)), Tail(queue), moves - 1)

\* process_input draining the whole queue whatever the gear
process_input_uncapped(p, queue) == DrainIntents(p, queue, Len(queue))

\* process_input emptying the queue once the moves of the frame are made
process_input_dropping(p, queue) ==
    LET moves_this_frame == Min(Len(queue), GEAR_SPEEDS[p.gear].move_speed)
    IN  [player |-> DrainIntents(p, queue, moves_this_frame).player, queue |-> <<>>]

\* process_input, the body under input_lock
process_input(p, queue) ==
    LET moves_this_frame == Min(Len(queue), GEAR_SPEEDS[p.gear].move_speed)
    IN  DrainIntents(p, queue, moves_this_frame)

\* check_collision reading the cell left of the player's
check_collision_left_cell(buffer, px, py) ==
    LET road_line_index == Len(buffer) - DISPLAY_HEIGHT + py
    IN  IF 0 <= road_line_index /\ road_line_index < Len(buffer)
        THEN buffer[road_line_index + 1][px + 1] \in OBSTACLE_CHARS
        ELSE FALSE

\* check_collision
check_collision(buffer, px, py) ==
    LET road_line_index == Len(buffer) - DISPLAY_HEIGHT + py
    IN  IF 0 <= road_line_index /\ road_line_index < Len(buffer)
        THEN LET road_line == buffer[road_line_index + 1]
             IN  IF StartsWithWall(road_line) /\ EndsWithWall(road_line)
                    /\ Len(road_line) = ROAD_WIDTH + 2
                 THEN IF 0 <= px /\ px < ROAD_WIDTH
                      THEN road_line[px + 2] \in OBSTACLE_CHARS
                      ELSE FALSE
                 ELSE FALSE
        ELSE FALSE

\* lines 255 and 328: min(5, (score // 150) + 1)
Difficulty(sc) == Min(5, (sc \div DIFFICULTY_STEP) + 1)

\* validate_road_buffer, the loop of lines 245-248
ValidLines(buffer, rnd) ==
    [i \in 1..Len(buffer) |-> validate_and_fix_road_line(buffer[i], rnd)]


\* ---- Bounds of the model ------------------------------------------------
\* key presses delivered to the listener in one run (the bytes that follow
\* the ESC of an arrow key belong to the same press)
MaxKeys == 2
\* frame advances stop once the score would pass this value
MaxScore == 6

\* ---- State --------------------------------------------------------------
VARIABLES
    game_over, score, current_gear, player_x, player_y,
    road_buffer,    \* the track buffer: a sequence of lines
    road_via,       \* per buffer line: TRUE when validate_and_fix_road_line made it
    input_queue,
    input_lock,     \* "free" or the thread holding it
    pc_main, pc_listener, pc_refiller,
    m_new, m_rhs,   \* main loop: new_chunk; the value about to be stored
    r_new, r_rhs,   \* road_refiller: new_chunk; the value about to be stored
    keys_read,      \* key presses read so far
    pass_len,       \* len(road_buffer) as line 327 read it in the current main
                    \* loop pass, 0 outside a pass
    arg, ret        \* argument and result of a function applied on its own

vars == <<game_over, score, current_gear, player_x, player_y, road_buffer,
          road_via, input_queue, input_lock, pc_main, pc_listener, pc_refiller,
          m_new, m_rhs, r_new, r_rhs, keys_read, pass_len, arg, ret>>

player_vars == <<score, current_gear, player_x, player_y>>
buffer_vars == <<road_buffer, road_via>>
main_locals == <<m_new, m_rhs>>
refiller_locals == <<r_new, r_rhs>>
call_vars == <<arg, ret>>

NoLines == [lines |-> <<>>, via |-> <<>>, difficulty |-> 0]

\* ---- Inputs of a run of the game ----------------------------------------
AllSame(c) == [i \in 1..ROAD_WIDTH |-> c]
Spaces(k) == [i \in 1..k |-> EMPTY]
\* a well-formed line with one obstacle c in 0-based column col
ObstacleLine(col, c) ==
    <<WALL>> \o [i \in 1..ROAD_WIDTH |-> IF i = col + 1 THEN c ELSE EMPTY] \o <<WALL>>
\* a line of the right width with a character outside the alphabet
JunkLine == <<WALL>> \o [i \in 1..ROAD_WIDTH |-> IF i = 1 THEN JUNK ELSE EMPTY] \o <<WALL>>

GameStreams == {AllSame("#")}
GameOutcomes ==
    {Raises,
     Reply(<<JunkLine, <<"x", "x">>, ObstacleLine(ROAD_WIDTH \div 2, "@")>>)}
GameDraws(outcome) ==
    IF outcome.kind = "raise"
    THEN {d \in FallbackDraws(GameStreams) :
             d.num = 0 \/ (d.num = 1 /\ d.pts[1] = 0)}
    ELSE {NoDraw(c) : c \in GameStreams}

\* road_buffer[:5]
FirstFive(buffer) == SubSeq(buffer, 1, Min(5, Len(buffer)))

\* llm_generate_road_chunk whose except branch returns no line
GenerateChunkNoFallback(previous_lines, chunk_size, difficulty_level, outcome, draw) ==
    IF outcome.kind = "raise"
    THEN [lines |-> <<>>, via |-> <<>>, difficulty |-> difficulty_level]
    ELSE [lines |-> llm_generate_road_chunk(previous_lines, chunk_size,
                                            difficulty_level, outcome, draw),
          via |-> ChunkVia(chunk_size, outcome),
          difficulty |-> difficulty_level]

\* One call of llm_generate_road_chunk: the lines it returns, the tag of
\* every line and the difficulty_level it was called with
GenerateChunk(previous_lines, chunk_size, difficulty_level, outcome, draw) ==
    [lines |-> llm_generate_road_chunk(previous_lines, chunk_size,
                                       difficulty_level, outcome, draw),
     via |-> ChunkVia(chunk_size, outcome),
     difficulty |-> difficulty_level]

Keys == {"w", "a", "s", "d", "A", "D", "B", " ", "ESC", "[", "C", "q", "ETX", "x"}

\* key.lower() for the keys above
Lower(key) == IF key = "A" THEN "a" ELSE IF key = "D" THEN "d"
              ELSE IF key = "B" THEN "b" ELSE IF key = "C" THEN "c" ELSE key

\* ---- Init: module level state, lines 33-42 ------------------------------
Init ==
    /\ game_over = FALSE
    /\ score = 0
    /\ current_gear = 1
    /\ player_x = ROAD_WIDTH \div 2
    /\ player_y = DISPLAY_HEIGHT - 3
    /\ road_buffer = <<>>
    /\ road_via = <<>>
    /\ input_queue = <<>>
    /\ input_lock = "free"
    /\ pc_main = "init"
    /\ pc_listener = "idle"
    /\ pc_refiller = "idle"
    /\ m_new = NoLines /\ m_rhs = NoLines
    /\ r_new = NoLines /\ r_rhs = NoLines
    /\ keys_read = 0
    /\ pass_len = 0
    /\ arg = <<>> /\ ret = <<>>

\* ---- main thread --------------------------------------------------------
\* lines 313-315: initialize_road(), then the two threads are started
InitializeRoad ==
    /\ pc_main = "init"
    /\ \E outcome \in GameOutcomes : \E draw \in GameDraws(outcome) :
          LET chunk == GenerateChunk(<<>>, ROAD_CHUNK_SIZE * 3, 1, outcome, draw)
          IN  /\ road_buffer' = chunk.lines
              /\ road_via' = chunk.via
    /\ pc_main' = "loop"
    /\ pc_listener' = "loop"
    /\ pc_refiller' = "loop"
    /\ UNCHANGED <<game_over, player_vars, input_queue, input_lock, main_locals,
                   refiller_locals, keys_read, call_vars, pass_len>>

\* line 324 as "while True"
MainLoopTestNoExit ==
    /\ pc_main = "loop"
    /\ pc_main' = "input"
    /\ UNCHANGED <<game_over, player_vars, buffer_vars, input_queue, input_lock,
                   pc_listener, pc_refiller, main_locals, refiller_locals,
                   keys_read, call_vars, pass_len>>

\* line 324: while not game_over
MainLoopTest ==
    /\ pc_main = "loop"
    /\ pc_main' = IF game_over THEN "done" ELSE "input"
    /\ UNCHANGED <<game_over, player_vars, buffer_vars, input_queue, input_lock,
                   pc_listener, pc_refiller, main_locals, refiller_locals,
                   keys_read, call_vars, pass_len>>

\* line 326: process_input(), which waits for input_lock
MainProcessInput ==
    /\ pc_main = "input"
    /\ input_lock = "free"
    /\ LET r == process_input([x |-> player_x, y |-> player_y, gear |-> current_gear],
                              input_queue)
       IN  /\ player_x' = r.player.x
           /\ player_y' = r.player.y
           /\ current_gear' = r.player.gear
           /\ input_queue' = r.queue
    /\ pc_main' = "safety"
    /\ UNCHANGED <<game_over, score, buffer_vars, input_lock, pc_listener,
                   pc_refiller, main_locals, refiller_locals, keys_read, call_vars, pass_len>>

\* lines 327-331 with the test of line 327 written without the margin:
MainSafetyNetNoMargin ==
    /\ pc_main \in {"safety", "prepend", "store", "validate", "assign"}
    /\ CASE pc_main = "safety" ->
              IF Len(road_buffer) < DISPLAY_HEIGHT
              THEN /\ \E outcome \in GameOutcomes : \E draw \in GameDraws(outcome) :
                         m_new' = GenerateChunk(FirstFive(road_buffer), ROAD_CHUNK_SIZE,
                                                Difficulty(score), outcome, draw)
                   /\ pc_main' = "prepend"
                   /\ pass_len' = Len(road_buffer)
                   /\ UNCHANGED <<m_rhs, buffer_vars>>
              ELSE /\ pc_main' = "collision"
                   /\ pass_len' = Len(road_buffer)
                   /\ UNCHANGED <<main_locals, buffer_vars>>
         [] pc_main = "prepend" ->
              /\ m_rhs' = [lines |-> m_new.lines \o road_buffer,
                           via |-> m_new.via \o road_via, difficulty |-> 0]
              /\ pc_main' = "store"
              /\ UNCHANGED <<m_new, buffer_vars, pass_len>>
         [] pc_main = "store" ->
              /\ road_buffer' = m_rhs.lines
              /\ road_via' = m_rhs.via
              /\ pc_main' = "validate"
              /\ UNCHANGED <<main_locals, pass_len>>
         [] pc_main = "validate" ->
              /\ \E rnd \in GameStreams :
                    m_rhs' = [lines |-> ValidLines(road_buffer, rnd),
                              via |-> [i \in 1..Len(road_buffer) |-> TRUE],
                              difficulty |-> 0]
              /\ pc_main' = "assign"
              /\ UNCHANGED <<m_new, buffer_vars, pass_len>>
         [] pc_main = "assign" ->
              /\ road_buffer' = m_rhs.lines
              /\ road_via' = m_rhs.via
              /\ pc_main' = "collision"
              /\ UNCHANGED <<main_locals, pass_len>>
    /\ UNCHANGED <<game_over, player_vars, input_queue, input_lock, pc_listener,
                   pc_refiller, refiller_locals, keys_read, call_vars>>

\* lines 327-331, the safety-net refill, one step per statement:
\*   safety    the test of line 327 and the call of line 329
\*   prepend   line 330, new_chunk + road_buffer evaluated
\*   store     line 330, the result bound to road_buffer
\*   validate  validate_road_buffer, the loop over road_buffer
\*   assign    validate_road_buffer, road_buffer = valid_lines
MainSafetyNet ==
    /\ pc_main \in {"safety", "prepend", "store", "validate", "assign"}
    /\ CASE pc_main = "safety" ->
              IF Len(road_buffer) < DISPLAY_HEIGHT + BUFFER_MARGIN
              THEN /\ \E outcome \in GameOutcomes : \E draw \in GameDraws(outcome) :
                         m_new' = GenerateChunk(FirstFive(road_buffer), ROAD_CHUNK_SIZE,
                                                Difficulty(score), outcome, draw)
                   /\ pc_main' = "prepend"
                   /\ pass_len' = Len(road_buffer)
                   /\ UNCHANGED <<m_rhs, buffer_vars>>
              ELSE /\ pc_main' = "collision"
                   /\ pass_len' = Len(road_buffer)
                   /\ UNCHANGED <<main_locals, buffer_vars>>
         [] pc_main = "prepend" ->
              /\ m_rhs' = [lines |-> m_new.lines \o road_buffer,
                           via |-> m_new.via \o road_via, difficulty |-> 0]
              /\ pc_main' = "store"
              /\ UNCHANGED <<m_new, buffer_vars, pass_len>>
         [] pc_main = "store" ->
              /\ road_buffer' = m_rhs.lines
              /\ road_via' = m_rhs.via
              /\ pc_main' = "validate"
              /\ UNCHANGED <<main_locals, pass_len>>
         [] pc_main = "validate" ->
              /\ \E rnd \in GameStreams :
                    m_rhs' = [lines |-> ValidLines(road_buffer, rnd),
                              via |-> [i \in 1..Len(road_buffer) |-> TRUE],
                              difficulty |-> 0]
              /\ pc_main' = "assign"
              /\ UNCHANGED <<m_new, buffer_vars, pass_len>>
         [] pc_main = "assign" ->
              /\ road_buffer' = m_rhs.lines
              /\ road_via' = m_rhs.via
              /\ pc_main' = "collision"
              /\ UNCHANGED <<main_locals, pass_len>>
    /\ UNCHANGED <<game_over, player_vars, input_queue, input_lock, pc_listener,
                   pc_refiller, refiller_locals, keys_read, call_vars>>

\* lines 332-334 without the break of line 334
MainCollisionNoBreak ==
    /\ pc_main = "collision"
    /\ game_over' = (game_over \/ check_collision(road_buffer, player_x, player_y))
    /\ pc_main' = "advance"
    /\ UNCHANGED <<player_vars, buffer_vars, input_queue, input_lock, pc_listener,
                   pc_refiller, main_locals, refiller_locals, keys_read, call_vars,
                   pass_len>>

\* lines 332-334; "crashed" is the break of line 334
MainCollision ==
    /\ pc_main = "collision"
    /\ IF check_collision(road_buffer, player_x, player_y)
       THEN game_over' = TRUE /\ pc_main' = "crashed" /\ pass_len' = 0
       ELSE game_over' = game_over /\ pc_main' = "advance" /\ pass_len' = pass_len
    /\ UNCHANGED <<player_vars, buffer_vars, input_queue, input_lock, pc_listener,
                   pc_refiller, main_locals, refiller_locals, keys_read, call_vars>>

\* lines 335-343 with ">=" for the ">" of line 338
MainAdvancePopAtFloor ==
    /\ pc_main = "advance"
    /\ \E elapsed \in BOOLEAN :
          IF elapsed /\ score + current_gear <= MaxScore
          THEN /\ IF Len(road_buffer) >= DISPLAY_HEIGHT + BUFFER_MARGIN
                  THEN /\ road_buffer' = SubSeq(road_buffer, 1, Len(road_buffer) - 1)
                       /\ road_via' = SubSeq(road_via, 1, Len(road_via) - 1)
                  ELSE UNCHANGED buffer_vars
               /\ score' = score + current_gear
          ELSE UNCHANGED <<buffer_vars, score>>
    /\ pc_main' = "loop"
    /\ pass_len' = 0
    /\ UNCHANGED <<game_over, current_gear, player_x, player_y, input_queue,
                   input_lock, pc_listener, pc_refiller, main_locals,
                   refiller_locals, keys_read, call_vars>>

\* lines 335-343 with "score += 1" for line 340
MainAdvanceUnitScore ==
    /\ pc_main = "advance"
    /\ \E elapsed \in BOOLEAN :
          IF elapsed /\ score + current_gear <= MaxScore
          THEN /\ IF Len(road_buffer) > DISPLAY_HEIGHT + BUFFER_MARGIN
                  THEN /\ road_buffer' = SubSeq(road_buffer, 1, Len(road_buffer) - 1)
                       /\ road_via' = SubSeq(road_via, 1, Len(road_via) - 1)
                  ELSE UNCHANGED buffer_vars
               /\ score' = score + 1
          ELSE UNCHANGED <<buffer_vars, score>>
    /\ pc_main' = "loop"
    /\ pass_len' = 0
    /\ UNCHANGED <<game_over, current_gear, player_x, player_y, input_queue,
                   input_lock, pc_listener, pc_refiller, main_locals,
                   refiller_locals, keys_read, call_vars>>

\* lines 335-343: elapsed is the outcome of the test of line 337
MainAdvance ==
    /\ pc_main = "advance"
    /\ \E elapsed \in BOOLEAN :
          IF elapsed /\ score + current_gear <= MaxScore
          THEN /\ IF Len(road_buffer) > DISPLAY_HEIGHT + BUFFER_MARGIN
                  THEN /\ road_buffer' = SubSeq(road_buffer, 1, Len(road_buffer) - 1)
                       /\ road_via' = SubSeq(road_via, 1, Len(road_via) - 1)
                  ELSE UNCHANGED buffer_vars
               /\ score' = score + current_gear
          ELSE UNCHANGED <<buffer_vars, score>>
    /\ pc_main' = "loop"
    /\ pass_len' = 0
    /\ UNCHANGED <<game_over, current_gear, player_x, player_y, input_queue,
                   input_lock, pc_listener, pc_refiller, main_locals,
                   refiller_locals, keys_read, call_vars>>

\* lines 344-345: KeyboardInterrupt raised in the main loop
Interrupt ==
    /\ pc_main \in {"loop", "input", "safety", "prepend", "store", "validate",
                    "assign", "collision", "advance"}
    /\ game_over' = TRUE
    /\ pc_main' = "interrupted"
    /\ pass_len' = 0
    /\ UNCHANGED <<player_vars, buffer_vars, input_queue, input_lock, pc_listener,
                   pc_refiller, main_locals, refiller_locals, keys_read, call_vars>>


\* ---- road_refiller thread (lines 251-259), one step per statement -------
\*   loop      line 253, while not game_over
\*   check     line 254 and, below the low-water mark, the call of line 256
\*   prepend   line 257, new_chunk + road_buffer evaluated
\*   store     line 257, the result bound to road_buffer
\*   validate  validate_road_buffer, the loop over road_buffer
\*   assign    validate_road_buffer, road_buffer = valid_lines
RefillerLoopTest ==
    /\ pc_refiller = "loop"
    /\ pc_refiller' = IF game_over THEN "done" ELSE "check"
    /\ UNCHANGED <<game_over, player_vars, buffer_vars, input_queue, input_lock,
                   pc_main, pc_listener, main_locals, refiller_locals, keys_read,
                   call_vars, pass_len>>

\* line 254 testing against ROAD_CHUNK_SIZE instead of ROAD_CHUNK_SIZE * 2
RefillerCheckLowMark ==
    /\ pc_refiller = "check"
    /\ IF Len(road_buffer) < ROAD_CHUNK_SIZE
       THEN /\ \E outcome \in GameOutcomes : \E draw \in GameDraws(outcome) :
                  r_new' = GenerateChunk(FirstFive(road_buffer), ROAD_CHUNK_SIZE,
                                         Difficulty(score), outcome, draw)
            /\ pc_refiller' = "prepend"
       ELSE /\ r_new' = r_new
            /\ pc_refiller' = "loop"
    /\ UNCHANGED <<game_over, player_vars, buffer_vars, input_queue, input_lock,
                   pc_main, pc_listener, main_locals, r_rhs, keys_read, call_vars, pass_len>>

RefillerCheck ==
    /\ pc_refiller = "check"
    /\ IF Len(road_buffer) < ROAD_CHUNK_SIZE * 2
       THEN /\ \E outcome \in GameOutcomes : \E draw \in GameDraws(outcome) :
                  r_new' = GenerateChunk(FirstFive(road_buffer), ROAD_CHUNK_SIZE,
                                         Difficulty(score), outcome, draw)
            /\ pc_refiller' = "prepend"
       ELSE /\ r_new' = r_new
            /\ pc_refiller' = "loop"
    /\ UNCHANGED <<game_over, player_vars, buffer_vars, input_queue, input_lock,
                   pc_main, pc_listener, main_locals, r_rhs, keys_read, call_vars, pass_len>>

RefillerPrepend ==
    /\ pc_refiller = "prepend"
    /\ r_rhs' = [lines |-> r_new.lines \o road_buffer, via |-> r_new.via \o road_via,
              difficulty |-> 0]
    /\ pc_refiller' = "store"
    /\ UNCHANGED <<game_over, player_vars, buffer_vars, input_queue, input_lock,
                   pc_main, pc_listener, main_locals, r_new, keys_read, call_vars, pass_len>>

RefillerStore ==
    /\ pc_refiller = "store"
    /\ road_buffer' = r_rhs.lines
    /\ road_via' = r_rhs.via
    /\ pc_refiller' = "validate"
    /\ UNCHANGED <<game_over, player_vars, input_queue, input_lock, pc_main,
                   pc_listener, main_locals, refiller_locals, keys_read, call_vars, pass_len>>

RefillerValidate ==
    /\ pc_refiller = "validate"
    /\ \E rnd \in GameStreams :
          r_rhs' = [lines |-> ValidLines(road_buffer, rnd),
                    via |-> [i \in 1..Len(road_buffer) |-> TRUE],
                    difficulty |-> 0]
    /\ pc_refiller' = "assign"
    /\ UNCHANGED <<game_over, player_vars, buffer_vars, input_queue, input_lock,
                   pc_main, pc_listener, main_locals, r_new, keys_read, call_vars, pass_len>>

RefillerAssign ==
    /\ pc_refiller = "assign"
    /\ road_buffer' = r_rhs.lines
    /\ road_via' = r_rhs.via
    /\ pc_refiller' = "loop"
    /\ UNCHANGED <<game_over, player_vars, input_queue, input_lock, pc_main,
                   pc_listener, main_locals, refiller_locals, keys_read, call_vars, pass_len>>

\* ---- keypress_listener thread (lines 195-221) ---------------------------
\*   loop   line 195, while not game_over
\*   read   line 196, blocked in sys.stdin.read(1), the lock not held
\*   esc1   line 209, blocked in sys.stdin.read(1) inside "with input_lock"
\*   esc2   line 211, blocked in sys.stdin.read(1) inside "with input_lock"
ListenerLoopTest ==
    /\ pc_listener = "loop"
    /\ pc_listener' = IF game_over THEN "done" ELSE "read"
    /\ UNCHANGED <<game_over, player_vars, buffer_vars, input_queue, input_lock,
                   pc_main, pc_refiller, main_locals, refiller_locals, keys_read,
                   call_vars, pass_len>>

\* lines 196-221 with the space key shifting current_gear in the listener
\* (line 190 declares it global there) instead of queueing "gear_up"
ListenerKeyShiftsGear ==
    /\ pc_listener = "read"
    /\ input_lock = "free"
    /\ keys_read < MaxKeys
    /\ keys_read' = keys_read + 1
    /\ \E key \in Keys :
          IF Lower(key) = "w"
          THEN /\ input_queue' = Append(input_queue, "up")
               /\ UNCHANGED <<game_over, input_lock, current_gear>>
               /\ pc_listener' = "loop"
          ELSE IF Lower(key) = "a"
          THEN /\ input_queue' = Append(input_queue, "left")
               /\ UNCHANGED <<game_over, input_lock, current_gear>>
               /\ pc_listener' = "loop"
          ELSE IF Lower(key) = "s"
          THEN /\ input_queue' = Append(input_queue, "down")
               /\ UNCHANGED <<game_over, input_lock, current_gear>>
               /\ pc_listener' = "loop"
          ELSE IF Lower(key) = "d"
          THEN /\ input_queue' = Append(input_queue, "right")
               /\ UNCHANGED <<game_over, input_lock, current_gear>>
               /\ pc_listener' = "loop"
          ELSE IF key = " "
          THEN /\ current_gear' = Min(max_gear, current_gear + 1)
               /\ UNCHANGED <<game_over, input_lock, input_queue>>
               /\ pc_listener' = "loop"
          ELSE IF key = "ESC"
          THEN /\ input_lock' = "listener"
               /\ UNCHANGED <<game_over, input_queue, current_gear>>
               /\ pc_listener' = "esc1"
          ELSE IF key = "ETX" \/ Lower(key) = "q"
          THEN /\ game_over' = TRUE
               /\ UNCHANGED <<input_queue, input_lock, current_gear>>
               /\ pc_listener' = "loop"
          ELSE /\ UNCHANGED <<game_over, input_queue, input_lock, current_gear>>
               /\ pc_listener' = "loop"
    /\ UNCHANGED <<score, player_x, player_y, buffer_vars, pc_main, pc_refiller,
                   main_locals, refiller_locals, call_vars, pass_len>>

\* lines 196-221 for a key byte that arrives: the read returns, the lock is
\* taken and the branch of the key runs up to its next read or to the end
\* of the "with" block.
ListenerKey ==
    /\ pc_listener = "read"
    /\ input_lock = "free"
    /\ keys_read < MaxKeys
    /\ keys_read' = keys_read + 1
    /\ \E key \in Keys :
          IF Lower(key) = "w"
          THEN /\ input_queue' = Append(input_queue, "up")
               /\ UNCHANGED <<game_over, input_lock>> /\ pc_listener' = "loop"
          ELSE IF Lower(key) = "a"
          THEN /\ input_queue' = Append(input_queue, "left")
               /\ UNCHANGED <<game_over, input_lock>> /\ pc_listener' = "loop"
          ELSE IF Lower(key) = "s"
          THEN /\ input_queue' = Append(input_queue, "down")
               /\ UNCHANGED <<game_over, input_lock>> /\ pc_listener' = "loop"
          ELSE IF Lower(key) = "d"
          THEN /\ input_queue' = Append(input_queue, "right")
               /\ UNCHANGED <<game_over, input_lock>> /\ pc_listener' = "loop"
          ELSE IF key = " "
          THEN /\ input_queue' = Append(input_queue, "gear_up")
               /\ UNCHANGED <<game_over, input_lock>> /\ pc_listener' = "loop"
          ELSE IF key = "ESC"
          THEN /\ input_lock' = "listener"
               /\ UNCHANGED <<game_over, input_queue>> /\ pc_listener' = "esc1"
          ELSE IF key = "ETX" \/ Lower(key) = "q"
          THEN /\ game_over' = TRUE
               /\ UNCHANGED <<input_queue, input_lock>> /\ pc_listener' = "loop"
          ELSE /\ UNCHANGED <<game_over, input_queue, input_lock>>
               /\ pc_listener' = "loop"
    /\ UNCHANGED <<player_vars, buffer_vars, pc_main, pc_refiller, main_locals,
                   refiller_locals, call_vars, pass_len>>

\* lines 209-210: the byte after ESC arrives, input_lock held
ListenerEsc1 ==
    /\ pc_listener = "esc1"
    /\ \E next1 \in Keys :
          IF next1 = "["
          THEN pc_listener' = "esc2" /\ input_lock' = input_lock
          ELSE pc_listener' = "loop" /\ input_lock' = "free"
    /\ UNCHANGED <<game_over, player_vars, buffer_vars, input_queue, pc_main,
                   pc_refiller, main_locals, refiller_locals, keys_read, call_vars, pass_len>>

\* lines 211-219: the third byte arrives, then the "with" block ends
ListenerEsc2 ==
    /\ pc_listener = "esc2"
    /\ \E next2 \in Keys :
          input_queue' = IF next2 = "A" THEN Append(input_queue, "up")
                         ELSE IF next2 = "B" THEN Append(input_queue, "down")
                         ELSE IF next2 = "C" THEN Append(input_queue, "right")
                         ELSE IF next2 = "D" THEN Append(input_queue, "left")
                         ELSE input_queue
    /\ input_lock' = "free"
    /\ pc_listener' = "loop"
    /\ UNCHANGED <<game_over, player_vars, buffer_vars, pc_main, pc_refiller,
                   main_locals, refiller_locals, keys_read, call_vars, pass_len>>

MainLoop == \/ MainLoopTest \/ MainProcessInput \/ MainSafetyNet
            \/ MainCollision \/ MainAdvance
Main == InitializeRoad \/ MainLoop
Refiller == \/ RefillerLoopTest \/ RefillerCheck \/ RefillerPrepend \/ RefillerStore
            \/ RefillerValidate \/ RefillerAssign
ListenerStep == ListenerLoopTest
KeyEvent == ListenerKey \/ ListenerEsc1 \/ ListenerEsc2

Next == Main \/ Interrupt \/ Refiller \/ ListenerStep \/ KeyEvent

Spec == Init /\ [][Next]_vars

TypeOK ==
    /\ game_over \in BOOLEAN
    /\ score \in 0..MaxScore
    /\ current_gear \in 1..max_gear
    /\ Len(road_via) = Len(road_buffer)
    /\ input_lock \in {"free", "listener"}


\* ---- The functions applied on their own ---------------------------------
\* Bounds of the arguments
\* characters a raw line may have beyond ROAD_WIDTH + 2
MaxRawExtra == 1
\* largest chunk_size asked for
MaxChunk == 4
\* longest buffer handed to check_collision
MaxCollisionBuf == 4
\* longest intent queue handed to process_input
MaxQueue == 3
\* longest buffer handed to validate_road_buffer
MaxBufferLen == 3

RECURSIVE SeqsUpTo(_, _)
SeqsUpTo(S, n) ==
    IF n = 0 THEN {<<>>}
    ELSE LET shorter == SeqsUpTo(S, n - 1)
         IN  shorter \cup {Append(q, e) : q \in {r \in shorter : Len(r) = n - 1}, e \in S}

EmptyLine == <<WALL>> \o Spaces(ROAD_WIDTH) \o <<WALL>>

\* Raw lines: every string over wall, blank and junk up to the bound, and
\* the well-formed lines with one obstacle.
RawLines ==
    SeqsUpTo({WALL, EMPTY, JUNK}, ROAD_WIDTH + 2 + MaxRawExtra)
    \cup {ObstacleLine(col, c) : col \in 0..(ROAD_WIDTH - 1), c \in OBSTACLE_CHARS}

\* Replies of the service: none, fewer lines than asked, blank and padded
\* lines, malformed lines, more lines than asked.
PaddedLine == <<EMPTY>> \o ObstacleLine(0, "~") \o <<EMPTY, EMPTY>>
LongLine == <<WALL>> \o Spaces(ROAD_WIDTH + 1) \o <<WALL>>
ChunkOutcomes ==
    {Raises,
     Reply(<<>>),
     Reply(<<ObstacleLine(0, "*")>>),
     Reply(<<JunkLine, <<>>, <<EMPTY, EMPTY>>, PaddedLine>>),
     Reply([i \in 1..(MaxChunk + 2) |->
              IF i = 1 THEN LongLine
              ELSE IF i = 2 THEN <<WALL>>
              ELSE IF i = 3 THEN <<JUNK, "#", JUNK>>
              ELSE IF i = 4 THEN JunkLine
              ELSE ObstacleLine(ROAD_WIDTH - 1, "@")])}
ConstantStreams == {AllSame(c) : c \in OBSTACLE_CHARS}
ChunkDraws(outcome, difficulty_level) ==
    IF outcome.kind = "raise" THEN FallbackDraws(ConstantStreams)
    ELSE FillerDraws(difficulty_level, ConstantStreams)

CollisionLines == {EmptyLine, ObstacleLine(0, "#"), ObstacleLine(ROAD_WIDTH - 1, "@")}

\* Lines of a buffer handed to validate_road_buffer: valid ones, one with a
\* character outside the alphabet, one of the wrong width
BufferLines == CollisionLines \cup {ObstacleLine(ROAD_WIDTH \div 2, "~"), JunkLine, LongLine}

\* The arguments of one call
IsCallArg(a) ==
    \/ \E l \in RawLines : a = [fn |-> "validate_and_fix_road_line", line |-> l]
    \/ \E o \in ChunkOutcomes, d \in 1..5, n \in 0..MaxChunk :
          \E w \in ChunkDraws(o, d) :
             a = [fn |-> "llm_generate_road_chunk", chunk_size |-> n,
                  difficulty_level |-> d, outcome |-> o, draw |-> w]
    \/ \E b \in SeqsUpTo(CollisionLines, MaxCollisionBuf),
          x \in 0..(ROAD_WIDTH - 1), y \in 0..(DISPLAY_HEIGHT - 1) :
             a = [fn |-> "check_collision", buffer |-> b, x |-> x, y |-> y]
    \/ \E x \in 0..(ROAD_WIDTH - 1), y \in 0..(DISPLAY_HEIGHT - 1),
          g \in 1..max_gear, q \in SeqsUpTo(Intents, MaxQueue) :
             a = [fn |-> "process_input",
                  player |-> [x |-> x, y |-> y, gear |-> g], queue |-> q]
    \/ \E b \in SeqsUpTo(BufferLines, MaxBufferLen) :
          a = [fn |-> "validate_road_buffer", buffer |-> b]

NoResult == [done |-> FALSE, value |-> <<>>]
Result(v) == [done |-> TRUE, value |-> v]

\* The threads not started, one function about to be applied to arg.
CallInit ==
    /\ game_over = FALSE
    /\ score = 0
    /\ current_gear = 1
    /\ player_x = ROAD_WIDTH \div 2
    /\ player_y = DISPLAY_HEIGHT - 3
    /\ road_buffer = <<>>
    /\ road_via = <<>>
    /\ input_queue = <<>>
    /\ input_lock = "free"
    /\ pc_main = "call"
    /\ pc_listener = "idle"
    /\ pc_refiller = "idle"
    /\ m_new = NoLines /\ m_rhs = NoLines
    /\ r_new = NoLines /\ r_rhs = NoLines
    /\ keys_read = 0
    /\ pass_len = 0
    /\ IsCallArg(arg)
    /\ ret = NoResult

game_vars == <<game_over, score, current_gear, player_x, player_y, road_buffer,
               road_via, input_queue, input_lock, pc_main, pc_listener,
               pc_refiller, m_new, m_rhs, r_new, r_rhs, keys_read, pass_len>>

CallSanitize ==
    /\ pc_main = "call" /\ ~ret.done
    /\ arg.fn = "validate_and_fix_road_line"
    /\ \E rnd \in RandomStreams : ret' = Result(validate_and_fix_road_line(arg.line, rnd))
    /\ UNCHANGED <<game_vars, arg>>

CallGenerate ==
    /\ pc_main = "call" /\ ~ret.done
    /\ arg.fn = "llm_generate_road_chunk"
    /\ ret' = Result(llm_generate_road_chunk(<<>>, arg.chunk_size, arg.difficulty_level,
                                             arg.outcome, arg.draw))
    /\ UNCHANGED <<game_vars, arg>>

CallCollision ==
    /\ pc_main = "call" /\ ~ret.done
    /\ arg.fn = "check_collision"
    /\ ret' = Result(check_collision(arg.buffer, arg.x, arg.y))
    /\ UNCHANGED <<game_vars, arg>>

CallProcessInput ==
    /\ pc_main = "call" /\ ~ret.done
    /\ arg.fn = "process_input"
    /\ ret' = Result(process_input(arg.player, arg.queue))
    /\ UNCHANGED <<game_vars, arg>>

\* validate_road_buffer on its own: valid_lines, the list bound to
\* road_buffer by line 249
CallValidateBuffer ==
    /\ pc_main = "call" /\ ~ret.done
    /\ arg.fn = "validate_road_buffer"
    /\ \E rnd \in RandomStreams : ret' = Result(ValidLines(arg.buffer, rnd))
    /\ UNCHANGED <<game_vars, arg>>

CallNext == \/ CallSanitize \/ CallGenerate \/ CallCollision \/ CallProcessInput
            \/ CallValidateBuffer

CallSpec == CallInit /\ [][CallNext]_vars


\* ---- One pass of the main loop from a given buffer ----------------------
\* The scenario of a main loop pass entered with a buffer of any length, the
\* refill thread running, no key pressed: road_buffer is set to a sequence
\* of DISPLAY_HEIGHT to DISPLAY_HEIGHT + BUFFER_MARGIN + 1 valid lines.
TickBuffers ==
    {[i \in 1..n |-> IF i = k THEN ObstacleLine(ROAD_WIDTH \div 2, "#") ELSE EmptyLine] :
        n \in DISPLAY_HEIGHT..(DISPLAY_HEIGHT + BUFFER_MARGIN + 1), k \in 0..1}
TickInit ==
    /\ game_over = FALSE
    /\ score = 0
    /\ current_gear = 1
    /\ player_x = ROAD_WIDTH \div 2
    /\ player_y = DISPLAY_HEIGHT - 3
    /\ road_buffer \in TickBuffers
    /\ road_via = [i \in 1..Len(road_buffer) |-> TRUE]
    /\ input_queue = <<>>
    /\ input_lock = "free"
    /\ pc_main = "loop"
    /\ pc_listener = "idle"
    /\ pc_refiller = "loop"
    /\ m_new = NoLines /\ m_rhs = NoLines
    /\ r_new = NoLines /\ r_rhs = NoLines
    /\ keys_read = 0
    /\ pass_len = 0
    /\ arg = <<>> /\ ret = <<>>

TickNext == MainLoop \/ Refiller

TickSpec == TickInit /\ [][TickNext]_vars

\* ---- Scheduling ---------------------------------------------------------
\* Each thread keeps running while it has a step to take.  A key event and
\* an interrupt come from outside and may never happen.
FairSpec == Spec /\ WF_vars(Main) /\ WF_vars(Refiller) /\ WF_vars(ListenerStep)

\* ---- Properties of the functions (checked under CallSpec) ---------------
IsCall(fn) == arg.fn = fn /\ ret.done

\* C1: for every raw line, the empty one, a lone wall, over-long and junk
\* ones included, validate_and_fix_road_line returns a line of exactly
\* ROAD_WIDTH + 2 cells, walls first and last, every interior cell blank or
\* an obstacle symbol.
C1_SanitizeYieldsTrackLine ==
    IsCall("validate_and_fix_road_line") => IsTrackLine(ret.value)

\* a line of the right width whose junk cell was replaced by an obstacle
C1_Witness ==
    /\ IsCall("validate_and_fix_road_line")
    /\ arg.line = JunkLine
    /\ ret.value[2] = "~"

\* C2: for every chunk size n >= 0, difficulty and service outcome (short,
\* long or malformed reply, exception) llm_generate_road_chunk returns
\* exactly n lines, each a TrackLine.
C2_ChunkExactAndValid ==
    IsCall("llm_generate_road_chunk") =>
        /\ Len(ret.value) = arg.chunk_size
        /\ \A i \in 1..Len(ret.value) : IsTrackLine(ret.value[i])

\* a reply with more lines than asked, malformed ones among them
C2_Witness ==
    /\ IsCall("llm_generate_road_chunk")
    /\ arg.outcome.kind = "reply"
    /\ arg.chunk_size = MaxChunk
    /\ Len(arg.outcome.lines) > arg.chunk_size
    /\ \E i \in 1..Len(arg.outcome.lines) : ~IsTrackLine(arg.outcome.lines[i])

\* C7: check_collision is true exactly when the index
\* len(road_buffer) - DISPLAY_HEIGHT + player_y is within the buffer and the
\* cell of that line in the player's column is an obstacle symbol; it is
\* false for an empty cell and false for an index out of range.
C7_CollisionResult ==
    IsCall("check_collision") =>
        LET index == Len(arg.buffer) - DISPLAY_HEIGHT + arg.y
            in_range == 0 <= index /\ index < Len(arg.buffer)
        IN  /\ (in_range /\ arg.buffer[index + 1][arg.x + 2] \in OBSTACLE_CHARS)
                  => ret.value = TRUE
            /\ (in_range /\ arg.buffer[index + 1][arg.x + 2] = EMPTY)
                  => ret.value = FALSE
            /\ ~in_range => ret.value = FALSE

\* an obstacle under the player in a buffer longer than the display
C7_Witness ==
    /\ IsCall("check_collision")
    /\ Len(arg.buffer) > DISPLAY_HEIGHT
    /\ arg.y > 0
    /\ ret.value = TRUE

\* C8: process_input leaves the gear in 1..max_gear and never lowers it; the
\* gear rises by one for each gear_up intent consumed, up to max_gear; the
\* intents removed are a prefix of the queue no longer than the move_speed
\* of the gear at the start of the call nor than the queue.
CountGearUp(q) == Len(SelectSeq(q, LAMBDA a : a = "gear_up"))
C8_GearAndConsumption ==
    IsCall("process_input") =>
        LET gear == arg.player.gear
            removed == Len(arg.queue) - Len(ret.value.queue)
            consumed == SubSeq(arg.queue, 1, removed)
        IN  /\ removed >= 0
            /\ removed <= GEAR_SPEEDS[gear].move_speed
            /\ removed <= Len(arg.queue)
            /\ ret.value.queue = SubSeq(arg.queue, removed + 1, Len(arg.queue))
            /\ ret.value.player.gear \in 1..max_gear
            /\ ret.value.player.gear >= gear
            /\ ret.value.player.gear = Min(max_gear, gear + CountGearUp(consumed))

\* first gear, two gear_up intents queued: one consumed, second gear
C8_Witness ==
    /\ IsCall("process_input")
    /\ arg.player.gear = 1
    /\ arg.queue = <<"gear_up", "gear_up">>
    /\ ret.value.player.gear = 2
    /\ ret.value.queue = <<"gear_up">>


\* ---- Properties of the game ---------------------------------------------
BufferFloor == DISPLAY_HEIGHT + BUFFER_MARGIN

\* C3 (as amended): in every reachable state, whatever the interleaving of
\* seeding, prepends, re-validations and tail pops, every element of
\* road_buffer is a TrackLine and the length is not negative.
C3_BufferValid ==
    /\ Len(road_buffer) >= 0
    /\ \A i \in 1..Len(road_buffer) : IsTrackLine(road_buffer[i])

\* C3 (as claimed): moreover every element of the buffer has passed through
\* validate_and_fix_road_line.
C3_OnlySanitizedLines ==
    /\ C3_BufferValid
    /\ \A i \in 1..Len(road_via) : road_via[i]

\* the buffer after a refill prepend, its re-validation and tail pops
C3_Witness ==
    /\ Len(road_buffer) >= ROAD_CHUNK_SIZE * 2
    /\ \A i \in 1..Len(road_via) : road_via[i]
    /\ score > 0
    /\ pc_refiller = "loop"

\* C4: every change of road_buffer is the seeding, a chunk put in front of
\* its current content, its current lines re-validated in place, or its
\* current tail line removed: no write of one thread undoes a prepend or a
\* pop of the other.
C4_NoLostUpdate ==
    [][road_buffer' # road_buffer =>
          \/ pc_main = "init"
          \/ /\ Len(road_buffer') = Len(road_buffer) + ROAD_CHUNK_SIZE
             /\ SubSeq(road_buffer', ROAD_CHUNK_SIZE + 1, Len(road_buffer')) = road_buffer
          \/ /\ Len(road_buffer') = Len(road_buffer)
             /\ \A i \in 1..Len(road_buffer') : IsTrackLine(road_buffer'[i])
          \/ /\ Len(road_buffer) > 0
             /\ road_buffer' = SubSeq(road_buffer, 1, Len(road_buffer) - 1)]_vars

\* C5: whenever the main loop is at process_input, waiting for input_lock,
\* it eventually gets past it.
C5_InputLockAcquired == (pc_main = "input") ~> (pc_main # "input")

\* C6: once game_over is set, the main loop, the refill thread and the key
\* listener all leave their loops, with no further key event needed.  Only
\* states in which the user could still press a key (keys_read < MaxKeys) are
\* counted, so that a listener left in sys.stdin.read(1) is one the code
\* leaves there and not one the bound on key presses does.
AllExited ==
    /\ pc_main \in {"done", "crashed", "interrupted"}
    /\ pc_refiller = "done"
    /\ pc_listener = "done"
C6_AllUnitsExit == (game_over /\ keys_read < MaxKeys) ~> AllExited

\* C9: a collision check that finds an obstacle in the player's cell of the
\* line at index len(road_buffer) - DISPLAY_HEIGHT + player_y sets game_over
\* and leaves the loop in that pass: no score increment, no tail pop, and no
\* later step of the main loop.
ObstacleUnderPlayer ==
    LET index == Len(road_buffer) - DISPLAY_HEIGHT + player_y
    IN  /\ 0 <= index /\ index < Len(road_buffer)
        /\ road_buffer[index + 1][player_x + 2] \in OBSTACLE_CHARS
C9_CrashEndsPass ==
    [][/\ (pc_main = "collision" /\ pc_main' \notin {"collision", "interrupted"}
              /\ ObstacleUnderPlayer)
          => /\ game_over' /\ pc_main' = "crashed"
             /\ score' = score /\ road_buffer' = road_buffer
       /\ pc_main = "crashed"
          => /\ pc_main' = "crashed" /\ score' = score
             /\ Len(road_buffer') >= Len(road_buffer)]_vars

\* the loop left by a collision after some frame advances
C9_Witness == pc_main = "crashed" /\ game_over /\ score > 0

\* C10: a main loop pass whose test of line 327 finds the buffer shorter
\* than DISPLAY_HEIGHT + BUFFER_MARGIN runs the safety-net refill, and the
\* buffer at the end of the pass is at least as long as at that test, a
\* tail pop in the same pass and the steps of the refill thread included.
C10_SafetyNetGrows ==
    [][/\ (pc_main = "safety" /\ pc_main' # "safety"
              /\ Len(road_buffer) < BufferFloor)
          => pc_main' = "prepend"
       /\ (pc_main = "advance" /\ pc_main' = "loop" /\ pass_len < BufferFloor)
          => Len(road_buffer') >= pass_len]_vars

\* a pass that began below the mark and is about to advance a frame with a
\* tail pop due
C10_Witness ==
    /\ pc_main = "advance"
    /\ pass_len < BufferFloor
    /\ Len(road_buffer) > BufferFloor
    /\ score + current_gear <= MaxScore

\* C11: after the seeding, whenever the main loop checks a collision
\* (line 332) or renders (line 342, at the end of the pass, after the tail
\* pop if one was due) road_buffer holds at least DISPLAY_HEIGHT lines,
\* whatever the refill thread did or did not do in between.
C11_RenderHasContent ==
    [][/\ (pc_main = "collision" /\ pc_main' \in {"crashed", "advance"})
          => Len(road_buffer) >= DISPLAY_HEIGHT
       /\ (pc_main = "advance" /\ pc_main' = "loop")
          => Len(road_buffer') >= DISPLAY_HEIGHT]_vars

\* a collision check on a buffer popped down to the floor while the refill
\* thread has not requested any chunk
C11_Witness ==
    /\ pc_main = "collision"
    /\ Len(road_buffer) = BufferFloor
    /\ score > 0
    /\ r_new = NoLines /\ pc_refiller = "loop"

\* C12: the player stays on the board, 0 <= player_x <= ROAD_WIDTH - 1 and
\* 0 <= player_y <= DISPLAY_HEIGHT - 1, in every state; a process_input
\* whose one intent of the tick would leave the board removes the intent
\* from the queue and leaves the position as it was.
OnBoard(x, y) == x \in 0..(ROAD_WIDTH - 1) /\ y \in 0..(DISPLAY_HEIGHT - 1)
LeavesBoard(action, x, y) ==
    \/ action = "left" /\ x = 0
    \/ action = "right" /\ x = ROAD_WIDTH - 1
    \/ action = "up" /\ y = 0
    \/ action = "down" /\ y = DISPLAY_HEIGHT - 1
C13_ScoreMonotonic ==
    [][/\ score >= 0 /\ score' >= score
       /\ score' # score
          => /\ pc_main = "advance" /\ pc_main' = "loop"
             /\ current_gear \in 1..max_gear
             /\ score' = score + current_gear]_vars

\* a frame advanced in third gear
C13_Witness ==
    /\ current_gear = 3
    /\ score = MaxScore
    /\ input_queue = <<>>
    /\ pc_main = "loop"

\* C14 (as amended): no intent is dropped.  The queue changes only by the
\* listener appending one intent at its end and by process_input removing
\* min(len(input_queue), move_speed) intents from its head, each of them
\* applied to the player in order; the intents beyond the cap stay queued,
\* in order, for the next pass.
C14_NoIntentDropped ==
    [][input_queue' # input_queue =>
          \/ /\ \E a \in Intents : input_queue' = Append(input_queue, a)
             /\ pc_listener # pc_listener'
             /\ UNCHANGED <<player_x, player_y, current_gear>>
          \/ /\ pc_main = "input" /\ pc_main' = "safety"
             /\ LET n == Min(Len(input_queue), GEAR_SPEEDS[current_gear].move_speed)
                    taken == SubSeq(input_queue, 1, n)
                    p == DrainIntents([x |-> player_x, y |-> player_y,
                                       gear |-> current_gear], taken, n).player
                IN  /\ input_queue' = SubSeq(input_queue, n + 1, Len(input_queue))
                    /\ player_x' = p.x /\ player_y' = p.y
                    /\ current_gear' = p.gear]_vars

\* C14 (as claimed): when the queue holds more intents than the gear's
\* move_speed at process_input, some intent beyond the cap is removed from
\* the queue without being applied: the queue loses more than move_speed
\* intents in that call.
C14_CapDropsExcess ==
    [][(/\ pc_main = "input" /\ pc_main' = "safety"
        /\ Len(input_queue) > GEAR_SPEEDS[current_gear].move_speed)
          => Len(input_queue') < Len(input_queue)
                                    - GEAR_SPEEDS[current_gear].move_speed]_vars

\* first gear, "left" applied and "right" still queued after process_input
C14_Witness ==
    /\ pc_main = "safety"
    /\ score = 0
    /\ current_gear = 1
    /\ player_x = (ROAD_WIDTH \div 2) - 1
    /\ input_queue = <<"right">>
    /\ keys_read = 2

\* C15: the frame-advance interval 1 / (BASE_FPS * fps_mult[gear]) strictly
\* decreases with the gear over the whole table (fps_mult is positive and
\* strictly increasing from gear 1 to gear 10), so every process_input that
\* raises the gear shortens the interval.
C15_IntervalDecreases ==
    /\ DOMAIN GEAR_SPEEDS = 1..max_gear
    /\ \A g \in 1..max_gear : \A h \in 1..max_gear :
          g < h => /\ frame_delay(h) < frame_delay(g)
                   /\ 0 < GEAR_SPEEDS[g].fps_mult
                   /\ GEAR_SPEEDS[g].fps_mult < GEAR_SPEEDS[h].fps_mult
    /\ (IsCall("process_input") /\ ret.value.player.gear > arg.player.gear)
          => frame_delay(ret.value.player.gear) < frame_delay(arg.player.gear)

\* three gear_up intents consumed in 6th gear: 9th gear, a shorter interval
C15_Witness ==
    /\ IsCall("process_input")
    /\ arg.player.gear = 6
    /\ arg.queue = <<"gear_up", "gear_up", "gear_up">>
    /\ ret.value.player.gear = 9
    /\ frame_delay(9) < frame_delay(6)

\* C16: while the game is not over, a buffer shorter than
\* 2 * ROAD_CHUNK_SIZE leads, under fair scheduling of the refill thread, to
\* a chunk of exactly ROAD_CHUNK_SIZE lines put in front of the buffer (or
\* to the end of the game).  The chunk is requested with difficulty
\* min(5, score // 150 + 1), which lies in 1..5, and road_refiller requests
\* no chunk when it finds the length at or above the mark.
LowWaterMark == ROAD_CHUNK_SIZE * 2
ChunkPrepended ==
    /\ pc_refiller = "validate"
    /\ Len(r_new.lines) = ROAD_CHUNK_SIZE
    /\ Len(road_buffer) >= LowWaterMark
    /\ SubSeq(road_buffer, 1, ROAD_CHUNK_SIZE) = r_new.lines
C16_RefillBelowMark ==
    /\ (pc_main # "init" /\ ~game_over /\ Len(road_buffer) < LowWaterMark)
          ~> (ChunkPrepended \/ game_over)
    /\ [][/\ (pc_refiller = "check" /\ pc_refiller' # "check")
              => IF Len(road_buffer) < LowWaterMark
                 THEN /\ pc_refiller' = "prepend"
                      /\ Len(r_new'.lines) = ROAD_CHUNK_SIZE
                      /\ r_new'.difficulty = Min(5, (score \div DIFFICULTY_STEP) + 1)
                      /\ r_new'.difficulty \in 1..5
                 ELSE /\ pc_refiller' = "loop"
                      /\ r_new' = r_new
           /\ (pc_refiller = "store" /\ pc_refiller' = "validate")
              => /\ Len(road_buffer') >= Len(road_buffer) + ROAD_CHUNK_SIZE
                 /\ SubSeq(road_buffer', 1, ROAD_CHUNK_SIZE) = r_new.lines]_vars

\* a chunk requested at the capped difficulty and put in front of a buffer
\* that was below the mark
C16_Witness ==
    /\ ChunkPrepended
    /\ r_new.difficulty = 5
    /\ score >= 5 * DIFFICULTY_STEP
    /\ ~game_over

\* C17: the buffer gets shorter only in a frame advance of the main loop
\* (the step that adds the gear to the score), by exactly its tail line,
\* and only when its length exceeds DISPLAY_HEIGHT + BUFFER_MARGIN; so a
\* pass of the main loop removes one tail line or none, and a pop leaves at
\* least DISPLAY_HEIGHT + BUFFER_MARGIN lines.
C17_PopOnlyInFrameAdvance ==
    [][/\ Len(road_buffer') < Len(road_buffer)
          => /\ pc_main = "advance" /\ pc_main' = "loop"
             /\ score' = score + current_gear
             /\ Len(road_buffer) > BufferFloor
             /\ road_buffer' = SubSeq(road_buffer, 1, Len(road_buffer) - 1)
             /\ Len(road_buffer') >= BufferFloor
       /\ (pc_main = "advance" /\ pc_main' = "loop")
          => \/ road_buffer' = road_buffer
             \/ road_buffer' = SubSeq(road_buffer, 1, Len(road_buffer) - 1)]_vars

\* six frames advanced in first gear with no refill: five pops down to the
\* floor, then a frame advance that pops nothing
C17_Witness ==
    /\ pc_main = "loop"
    /\ current_gear = 1
    /\ score = 3 * ROAD_CHUNK_SIZE - BufferFloor + 1
    /\ Len(road_buffer) = BufferFloor
    /\ r_new = NoLines

\* C18 (as amended): game_over, once true, stays true.  A collision or an
\* interrupt ends the main loop in the step that sets the flag; when the
\* quit key sets it during a pass of the main loop, that pass runs to its
\* end (process_input and the frame advance may still act) and the loop
\* test that follows ends the loop.  Once the main loop has ended, the
\* player position, the gear and the score never change and no tail line
\* is popped.
MainLoopEnded == pc_main \in {"done", "crashed", "interrupted"}
C18_TerminalOnceObserved ==
    [][/\ game_over => game_over'
       /\ MainLoopEnded
          => /\ game_over
             /\ pc_main' = pc_main
             /\ UNCHANGED <<player_x, player_y, current_gear, score>>
             /\ Len(road_buffer') >= Len(road_buffer)
       /\ (game_over /\ pc_main = "loop")
          => pc_main' \in {"loop", "done", "interrupted"}
       /\ (/\ game_over
           /\ \/ <<player_x, player_y, current_gear, score>>'
                    # <<player_x, player_y, current_gear, score>>
              \/ Len(road_buffer') < Len(road_buffer))
          => pc_main \in {"input", "advance"}]_vars

\* C18 (as claimed): from the state in which game_over becomes true on, the
\* flag stays true, position, gear and score never change and no tail line
\* is popped.
C18_TerminalOnceSet ==
    [][game_over
          => /\ game_over'
             /\ UNCHANGED <<player_x, player_y, current_gear, score>>
             /\ Len(road_buffer') >= Len(road_buffer)]_vars

\* the loop left at its test after the quit key, frames having advanced
C18_Witness ==
    /\ pc_main = "done"
    /\ game_over
    /\ score > 0
    /\ keys_read > 0

\* C19: player_x, player_y, current_gear and score change only in a step
\* of the main loop (process_input or the frame advance); every step of
\* keypress_listener and every step of road_refiller leaves them unchanged,
\* and every step of keypress_listener leaves road_buffer unchanged.
ListenerStepTaken == pc_listener # "idle" /\ pc_listener' # pc_listener
RefillerStepTaken == pc_refiller # "idle" /\ pc_refiller' # pc_refiller
C19_PlayerMutatedBySimulationOnly ==
    [][/\ ListenerStepTaken
          => UNCHANGED <<player_x, player_y, current_gear, score, road_buffer>>
       /\ RefillerStepTaken
          => UNCHANGED <<player_x, player_y, current_gear, score>>
       /\ <<player_x, player_y, current_gear, score>>'
              # <<player_x, player_y, current_gear, score>>
          => /\ pc_main \in {"input", "advance"}
             /\ pc_main' # pc_main]_vars

\* the listener has queued an intent and set game_over with the quit key,
\* the refill thread has just stored a chunk
C19_Witness ==
    /\ keys_read = 2
    /\ Len(input_queue) = 1
    /\ game_over
    /\ pc_main \notin {"crashed", "interrupted"}
    /\ pc_refiller = "validate"

\* C20: validate_and_fix_road_line returns a line that satisfies the
\* TrackLine invariant unchanged, and so returns its own result unchanged
\* when applied again; validate_road_buffer keeps the number and the order
\* of the lines and leaves every line that is a TrackLine as it is.
C20_ValidLinesUnchanged ==
    /\ IsCall("validate_and_fix_road_line")
          => /\ IsTrackLine(arg.line) => ret.value = arg.line
             /\ \A rnd \in RandomStreams :
                   validate_and_fix_road_line(ret.value, rnd) = ret.value
    /\ IsCall("validate_road_buffer")
          => /\ Len(ret.value) = Len(arg.buffer)
             /\ \A i \in 1..Len(arg.buffer) :
                   IsTrackLine(arg.buffer[i]) => ret.value[i] = arg.buffer[i]
             /\ (\A i \in 1..Len(arg.buffer) : IsTrackLine(arg.buffer[i]))
                   => ret.value = arg.buffer

\* a buffer of three different valid lines re-validated
C20_Witness ==
    /\ IsCall("validate_road_buffer")
    /\ arg.buffer = <<ObstacleLine(0, "#"), EmptyLine, ObstacleLine(ROAD_WIDTH - 1, "@")>>
    /\ ret.value = arg.buffer

=============================================================================
